---- MODULE Spec2Model ----
(***************************************************************************)
(* Model of the per-shard RPC server of src/v/rpc/server.cc: the accept    *)
(* loop, the per-connection dispatch loop, the background handler tasks,   *)
(* the memory semaphore and stop().  Every task is a seastar continuation  *)
(* chain on one reactor thread, so each action below is the code that runs *)
(* between two suspension points.                                          *)
(***************************************************************************)
EXTENDS Integers, Sequences, FiniteSets, TLC

\* ---- bounds of the model
MaxConns == 1          \* connections the listener may accept
MaxReqs == 2           \* headers the shard reads off its connections
MaxAsk == 2            \* largest reserve_memory(ask) a handler issues
MaxCorr == 2           \* correlation ids a client chooses from
MaxReserves == 1       \* reserve_memory calls of one handler
MaxServices == 2       \* services a registry holds
MaxQueued == 2         \* events of event_size the audit queue has room for
MaxAttempts == 3       \* rounds of the enqueue loop of the audit test

\* ---- configuration and wire constants
max_service_memory_per_core == 1
header_size == 1
BodySize == 1
RegisteredServices == << {1} >>
MethodIds == 1..2

event_size == 2
audit_queue_max_buffer_size_per_shard == event_size * MaxQueued
EventSizes == 1..event_size
EventTypes == {"management", "consume", "authenticate", "describe"}
enabled_types == {"management", "consume"}

Conns == 1..MaxConns
CorrIds == 1..MaxCorr

Header == [meta : MethodIds, size : {BodySize}, correlation_id : CorrIds]
NoHeader == [meta |-> 0, size |-> 0, correlation_id |-> 0]

VARIABLES
    audit,       \* the shard's audit_log_manager and the test loop driving it
    services,    \* _services, in registration order: the method ids of each
    as,          \* _as.abort_requested()
    gate_closed, \* _conn_gate.is_closed()
    gate_count,  \* tasks currently inside _conn_gate
    stop_pc,     \* position of stop(): "idle", "closing", "done"
    lst,         \* the listener's accept loop: [pc, res]
    conns,       \* per connection: dispatch loop position, input flags, shutdown
    reqs,        \* per connection: the handler tasks started, in start order
    out,         \* per connection: the replies handed to conn->write, in order
    memory,      \* _memory: [avail, waitq]
    probe        \* _probe counters

\* the members of rpc::server
server_vars ==
    << services, as, gate_closed, gate_count, stop_pc, lst, conns, reqs, out,
       memory, probe >>

vars == << audit, server_vars >>

\* a connection that has not been accepted yet
NoConn ==
    [pc |-> "none", eof |-> FALSE, inshut |-> FALSE, nparsed |-> 0,
     res |-> "none", h |-> NoHeader, sd |-> "no", err |-> "none",
     logged |-> FALSE]

\* the audit manager as set_auditing_config_options leaves it: disabled,
\* the whole buffer available, nothing pending
NoAudit ==
    [enabled |-> FALSE, avail |-> audit_queue_max_buffer_size_per_shard,
     queue |-> << >>, attempts |-> 0, can_enqueue |-> FALSE, ok |-> FALSE,
     success |-> TRUE]

\* the members of a server as its constructor leaves them
InitServer ==
    /\ audit = NoAudit
    /\ as = FALSE
    /\ gate_closed = FALSE
    /\ gate_count = 0
    /\ stop_pc = "idle"
    /\ lst = [pc |-> "init", res |-> "none"]
    /\ conns = [c \in Conns |-> NoConn]
    /\ reqs = [c \in Conns |-> << >>]
    /\ out = [c \in Conns |-> << >>]
    /\ memory = [avail |-> max_service_memory_per_core, waitq |-> << >>]
    /\ probe = [header_corrupted |-> 0, method_not_found |-> 0,
                requests_completed |-> 0, waiting_for_available_memory |-> 0,
                bytes_received |-> 0]

\* the server of the configuration above, its services registered
Init ==
    /\ services = RegisteredServices
    /\ InitServer

\* ---- helpers

RECURSIVE SumParsed(_)
SumParsed(n) == IF n = 0 THEN 0 ELSE conns[n].nparsed + SumParsed(n - 1)

\* headers read so far, over all connections
TotalParsed == SumParsed(MaxConns)

\* connection objects that are still referenced: by their dispatch task or
\* by a handler task (both capture the lw_shared_ptr); these are the members
\* of the intrusive list _connections
Alive(c) ==
    /\ conns[c].pc # "none"
    /\ (conns[c].pc # "done" \/ \E k \in DOMAIN reqs[c] : reqs[c][k].pc # "done")

Registry == {c \in Conns : Alive(c)}

\* a gate whose close() is not seen by is_closed()
is_closed_never == FALSE

\* _conn_gate.is_closed()
is_closed == gate_closed

\* a lookup that takes the first service when none claims the id
FindServiceOrFirst(svcs, id) ==
    IF \E i \in DOMAIN svcs : id \in svcs[i]
    THEN CHOOSE i \in DOMAIN svcs :
            /\ id \in svcs[i]
            /\ \A j \in 1..(i - 1) : id \notin svcs[j]
    ELSE 1

\* a lookup that lets a later registration shadow an earlier one
FindServiceLast(svcs, id) ==
    IF \E i \in DOMAIN svcs : id \in svcs[i]
    THEN CHOOSE i \in DOMAIN svcs :
            /\ id \in svcs[i]
            /\ \A j \in (i + 1)..Len(svcs) : id \notin svcs[j]
    ELSE Len(svcs) + 1

\* std::find_if over _services: the first service that claims the id, or
\* Len + 1 for _services.end()
FindService(svcs, id) ==
    IF \E i \in DOMAIN svcs : id \in svcs[i]
    THEN CHOOSE i \in DOMAIN svcs :
            /\ id \in svcs[i]
            /\ \A j \in 1..(i - 1) : id \notin svcs[j]
    ELSE Len(svcs) + 1

\* ---- lifecycle: start, accept

\* server::start with one configured address
Start ==
    /\ lst.pc = "init"
    /\ stop_pc = "idle"
    /\ lst' = [pc |-> "accepting", res |-> "none"]
    /\ gate_count' = gate_count + 1
    /\ UNCHANGED << audit, services, as, gate_closed, stop_pc, conns, reqs, out, memory, probe >>

\* the pending s.accept() resolves with a connection or with an error
AcceptReady ==
    /\ lst.pc = "accepting"
    /\ \E r \in {"conn", "error"} :
          /\ r = "conn" => \E c \in Conns : conns[c].pc = "none"
          /\ lst' = [pc |-> "ready", res |-> r]
    /\ UNCHANGED << audit, services, as, gate_closed, gate_count, stop_pc, conns, reqs, out,
                    memory, probe >>

\* a continuation that handles the result without looking at _as
AcceptContNoAbortCheck ==
    /\ lst.pc = "ready"
    /\ IF FALSE
       THEN \* ignore_ready_future, stop_iteration::yes
            /\ lst' = [lst EXCEPT !.pc = "stopped"]
            /\ gate_count' = gate_count - 1
            /\ UNCHANGED conns
       ELSE IF lst.res = "error"
       THEN \* f_cs_sa.get() throws, repeat ends with the exception
            /\ lst' = [lst EXCEPT !.pc = "stopped"]
            /\ gate_count' = gate_count - 1
            /\ UNCHANGED conns
       ELSE LET c == CHOOSE x \in Conns :
                        /\ conns[x].pc = "none"
                        /\ \A y \in 1..(x - 1) : conns[y].pc # "none"
            IN IF is_closed
               THEN \* conn->shutdown() and gate_closed_exception
                    /\ conns' = [conns EXCEPT ![c] =
                                   [@ EXCEPT !.pc = "done", !.sd = "called"]]
                    /\ lst' = [lst EXCEPT !.pc = "stopped"]
                    /\ gate_count' = gate_count - 1
               ELSE \* with_gate(continous_method_dispath(conn)): a new
                    \* connection is not at eof and abort was not requested
                    /\ conns' = [conns EXCEPT ![c] = [@ EXCEPT !.pc = "read"]]
                    /\ lst' = [pc |-> "accepting", res |-> "none"]
                    /\ gate_count' = gate_count + 1
    /\ UNCHANGED << audit, services, as, gate_closed, stop_pc, reqs, out, memory, probe >>

\* the then_wrapped continuation of server::accept
AcceptCont ==
    /\ lst.pc = "ready"
    /\ IF as
       THEN \* ignore_ready_future, stop_iteration::yes
            /\ lst' = [lst EXCEPT !.pc = "stopped"]
            /\ gate_count' = gate_count - 1
            /\ UNCHANGED conns
       ELSE IF lst.res = "error"
       THEN \* f_cs_sa.get() throws, repeat ends with the exception
            /\ lst' = [lst EXCEPT !.pc = "stopped"]
            /\ gate_count' = gate_count - 1
            /\ UNCHANGED conns
       ELSE LET c == CHOOSE x \in Conns :
                        /\ conns[x].pc = "none"
                        /\ \A y \in 1..(x - 1) : conns[y].pc # "none"
            IN IF is_closed
               THEN \* conn->shutdown() and gate_closed_exception
                    /\ conns' = [conns EXCEPT ![c] =
                                   [@ EXCEPT !.pc = "done", !.sd = "called"]]
                    /\ lst' = [lst EXCEPT !.pc = "stopped"]
                    /\ gate_count' = gate_count - 1
               ELSE \* with_gate(continous_method_dispath(conn)): a new
                    \* connection is not at eof and abort was not requested
                    /\ conns' = [conns EXCEPT ![c] = [@ EXCEPT !.pc = "read"]]
                    /\ lst' = [pc |-> "accepting", res |-> "none"]
                    /\ gate_count' = gate_count + 1
    /\ UNCHANGED << audit, services, as, gate_closed, stop_pc, reqs, out, memory, probe >>

\* ---- the dispatch loop of one connection

\* the do_until body has ended, with or without an exception: the
\* then_wrapped continuation of server::accept calls conn->shutdown()
LoopEnd(c, e) ==
    conns' = [conns EXCEPT ![c] =
                [@ EXCEPT !.pc = "shutdown", !.sd = "called", !.err = e,
                          !.res = "none", !.h = NoHeader]]

\* do_until evaluates its stop condition: the loop ends, or parse_header
\* starts to read the next header (abort is the value _as has after this step)
LoopTurn(c, abort) ==
    IF conns[c].eof \/ abort
    THEN LoopEnd(c, "none")
    ELSE conns' = [conns EXCEPT ![c] = [@ EXCEPT !.pc = "read", !.res = "none"]]

\* what parse_header's read yields: a well-formed header, a corrupt one,
\* or a short read at end of input (peer closed or shutdown_input)
ParseResults(c) ==
    IF conns[c].inshut
    THEN {[res |-> "absent", h |-> NoHeader, eof |-> TRUE]}
    ELSE {[res |-> "absent", h |-> NoHeader, eof |-> TRUE]}
         \cup (IF TotalParsed < MaxReqs
               THEN {[res |-> "absent", h |-> NoHeader, eof |-> FALSE]}
                    \cup {[res |-> "header", h |-> hh, eof |-> FALSE] : hh \in Header}
               ELSE {})

\* parse_header's future becomes ready
ParseRead(c) ==
    /\ conns[c].pc = "read"
    /\ \E r \in ParseResults(c) :
          conns' = [conns EXCEPT ![c] =
                      [@ EXCEPT !.pc = "parsed", !.res = r.res, !.h = r.h,
                                !.eof = r.eof,
                                !.nparsed = IF r.eof THEN @ ELSE @ + 1]]
    /\ UNCHANGED << audit, services, as, gate_closed, gate_count, stop_pc, lst, reqs, out,
                    memory, probe >>

\* a handler task as dispatch_method_once launches it
NewHandler(h, svc) ==
    [h |-> h, m |-> svc, pc |-> "run", sig |-> FALSE,
     units |-> 0, ask |-> 0, nres |-> 0, res |-> "none"]

\* a loop that fails on a header it cannot parse
OnAbsentFail(c) ==
    /\ probe' = [probe EXCEPT !.header_corrupted = @ + 1]
    /\ LoopEnd(c, "corrupt")
    /\ UNCHANGED << gate_count, reqs >>

\* parse_header gave no header: count it and go round the loop
OnAbsent(c) ==
    /\ probe' = [probe EXCEPT !.header_corrupted = @ + 1]
    /\ LoopTurn(c, as)
    /\ UNCHANGED << gate_count, reqs >>

\* server::dispatch_method_once(h, conn), up to the future it returns
dispatch_method_once(c, h) ==
    LET it == FindService(services, h.meta)
    IN IF it = Len(services) + 1
       THEN /\ probe' = [probe EXCEPT !.method_not_found = @ + 1]
            /\ LoopEnd(c, "not_found")
            /\ UNCHANGED << gate_count, reqs >>
       ELSE /\ probe' = [probe EXCEPT !.bytes_received = @ + header_size + h.size]
            /\ IF is_closed
               THEN /\ LoopEnd(c, "gate_closed")
                    /\ UNCHANGED << gate_count, reqs >>
               ELSE /\ gate_count' = gate_count + 1
                    /\ reqs' = [reqs EXCEPT ![c] = Append(@, NewHandler(h, it))]
                    /\ conns' = [conns EXCEPT ![c] =
                                   [@ EXCEPT !.pc = "await", !.res = "none",
                                             !.h = NoHeader]]

\* the continuation of parse_header in continous_method_dispath
ParseCont(c) ==
    /\ conns[c].pc = "parsed"
    /\ IF conns[c].res = "absent"
       THEN OnAbsent(c)
       ELSE dispatch_method_once(c, conns[c].h)
    /\ UNCHANGED << audit, services, as, gate_closed, stop_pc, lst, out, memory >>

\* a loop that goes on to the next header without the signal
AwaitSignalNoWait(c) ==
    /\ conns[c].pc = "await"
    /\ LoopTurn(c, as)
    /\ UNCHANGED << audit, services, as, gate_closed, gate_count, stop_pc, lst,
                    reqs, out, memory, probe >>

\* a promise that breaks as soon as the handler has resolved, its reply
\* still being written
AwaitSignalEarlyBreak(c) ==
    /\ conns[c].pc = "await"
    /\ LET r == reqs[c][Len(reqs[c])]
       IN \/ /\ r.sig
             /\ LoopTurn(c, as)
          \/ /\ ~r.sig
             /\ r.pc \in {"write", "done"}
             /\ LoopEnd(c, "broken_promise")
    /\ UNCHANGED << audit, services, as, gate_closed, gate_count, stop_pc, lst,
                    reqs, out, memory, probe >>

\* the future of ctx->pr resolves: by signal_body_parse, or as a broken
\* promise when the context is destroyed without it
AwaitSignal(c) ==
    /\ conns[c].pc = "await"
    /\ LET r == reqs[c][Len(reqs[c])]
       IN \/ /\ r.sig
             /\ LoopTurn(c, as)
          \/ /\ ~r.sig
             /\ r.pc = "done"
             /\ LoopEnd(c, "broken_promise")
    /\ UNCHANGED << audit, services, as, gate_closed, gate_count, stop_pc, lst, reqs, out,
                    memory, probe >>

\* conn->shutdown() has resolved: log the loop's exception, leave the gate
ShutdownDone(c) ==
    /\ conns[c].pc = "shutdown"
    /\ conns' = [conns EXCEPT ![c] =
                   [@ EXCEPT !.pc = "done", !.sd = "done",
                             !.logged = (conns[c].err # "none")]]
    /\ gate_count' = gate_count - 1
    /\ UNCHANGED << audit, services, as, gate_closed, stop_pc, lst, reqs, out, memory, probe >>

\* ---- server::stop

\* a stop() that leaves the inputs of the live connections open
StopNoShutdownInput ==
    /\ stop_pc = "idle"
    /\ lst' = IF lst.pc = "accepting"
              THEN [pc |-> "ready", res |-> "error"]
              ELSE lst
    /\ as' = TRUE
    /\ gate_closed' = TRUE
    /\ stop_pc' = "closing"
    /\ UNCHANGED << audit, services, conns, gate_count, reqs, out, memory, probe >>

\* a stop() that closes the gate and leaves the abort source alone
StopNoAbort ==
    /\ stop_pc = "idle"
    /\ lst' = IF lst.pc = "accepting"
              THEN [pc |-> "ready", res |-> "error"]
              ELSE lst
    /\ conns' = [c \in Conns |->
                   IF c \in Registry
                   THEN [conns[c] EXCEPT !.inshut = TRUE]
                   ELSE conns[c]]
    /\ gate_closed' = TRUE
    /\ stop_pc' = "closing"
    /\ UNCHANGED << audit, services, as, gate_count, reqs, out, memory, probe >>

\* everything stop() does before it awaits _conn_gate.close()
Stop ==
    /\ stop_pc = "idle"
    /\ lst' = IF lst.pc = "accepting"
              THEN [pc |-> "ready", res |-> "error"]   \* abort_accept
              ELSE lst
    /\ as' = TRUE
    /\ conns' = [c \in Conns |->
                   IF c \in Registry
                   THEN [conns[c] EXCEPT !.inshut = TRUE]  \* shutdown_input
                   ELSE conns[c]]
    /\ gate_closed' = TRUE
    /\ stop_pc' = "closing"
    /\ UNCHANGED << audit, services, gate_count, reqs, out, memory, probe >>

\* a stop() that does not wait for the gate to drain
StopNoWait ==
    /\ stop_pc = "closing"
    /\ conns' = [c \in Conns |->
                   IF c \in Registry
                   THEN [conns[c] EXCEPT !.sd = "done"]
                   ELSE conns[c]]
    /\ stop_pc' = "done"
    /\ UNCHANGED << audit, services, as, gate_closed, gate_count, lst, reqs, out, memory, probe >>

\* _conn_gate.close() resolves, then shutdown() of what is left in _connections
StopDrained ==
    /\ stop_pc = "closing"
    /\ gate_count = 0
    /\ conns' = [c \in Conns |->
                   IF c \in Registry
                   THEN [conns[c] EXCEPT !.sd = "done"]
                   ELSE conns[c]]
    /\ stop_pc' = "done"
    /\ UNCHANGED << audit, services, as, gate_closed, gate_count, lst, reqs, out, memory, probe >>

\* ---- the memory semaphore (_memory) and the handler tasks

\* a signal that leaves the wait list alone
NumWokenNone(av, q) == 0

\* semaphore::signal: how many waiters at the front of the wait list the
\* available units satisfy, in FIFO order
RECURSIVE NumWoken(_, _)
NumWoken(av, q) ==
    IF q # << >> /\ Head(q).n <= av
    THEN 1 + NumWoken(av - Head(q).n, Tail(q))
    ELSE 0

RECURSIVE SumAsk(_)
SumAsk(q) == IF q = << >> THEN 0 ELSE Head(q).n + SumAsk(Tail(q))

\* destruction of semaphore_units holding n units: the units return to
\* _memory and the waiters they satisfy are resumed holding their units
ReturnUnits(rq, n) ==
    LET av == memory.avail + n
        q == memory.waitq
        g == NumWoken(av, q)
        woken == SubSeq(q, 1, g)
    IN [mem |-> [avail |-> av - SumAsk(woken),
                 waitq |-> SubSeq(q, g + 1, Len(q))],
        rq |-> [c \in Conns |->
                  [k \in DOMAIN rq[c] |->
                     IF \E i \in 1..g : woken[i].c = c /\ woken[i].k = k
                     THEN [rq[c][k] EXCEPT !.pc = "run", !.units = @ + rq[c][k].ask,
                                           !.ask = 0]
                     ELSE rq[c][k]]]]

Running(c, k) == k \in DOMAIN reqs[c] /\ reqs[c][k].pc = "run"

\* a reservation that takes its units without waiting for them
reserve_memory_nowait(c, k, ask) ==
    /\ Running(c, k)
    /\ reqs[c][k].nres < MaxReserves
    /\ memory' = [memory EXCEPT !.avail = @ - ask]
    /\ reqs' = [reqs EXCEPT ![c][k] = [@ EXCEPT !.units = @ + ask, !.nres = @ + 1]]
    /\ probe' = IF Len(memory'.waitq) > 0
                THEN [probe EXCEPT !.waiting_for_available_memory = @ + 1]
                ELSE probe
    /\ UNCHANGED << audit, services, as, gate_closed, gate_count, stop_pc, lst, conns, out >>

\* server_context_impl::reserve_memory(ask)
reserve_memory(c, k, ask) ==
    /\ Running(c, k)
    /\ reqs[c][k].nres < MaxReserves
    /\ IF memory.avail >= ask /\ memory.waitq = << >>
       THEN /\ memory' = [memory EXCEPT !.avail = @ - ask]
            /\ reqs' = [reqs EXCEPT ![c][k] =
                          [@ EXCEPT !.units = @ + ask, !.nres = @ + 1]]
       ELSE /\ memory' = [memory EXCEPT !.waitq =
                                      Append(@, [c |-> c, k |-> k, n |-> ask])]
            /\ reqs' = [reqs EXCEPT ![c][k] =
                          [@ EXCEPT !.pc = "wait", !.ask = ask, !.nres = @ + 1]]
    /\ probe' = IF Len(memory'.waitq) > 0
                THEN [probe EXCEPT !.waiting_for_available_memory = @ + 1]
                ELSE probe
    /\ UNCHANGED << audit, services, as, gate_closed, gate_count, stop_pc, lst, conns, out >>

\* server_context_impl::signal_body_parse, called by the handler once it has
\* consumed the body
signal_body_parse(c, k) ==
    /\ Running(c, k)
    /\ ~reqs[c][k].sig
    /\ reqs' = [reqs EXCEPT ![c][k].sig = TRUE]
    /\ UNCHANGED << audit, services, as, gate_closed, gate_count, stop_pc, lst, conns, out,
                    memory, probe >>

\* a reply stamped from the context of the request dispatched last
StampReplyLatest(c, k) ==
    [k |-> k, correlation_id |-> reqs[c][Len(reqs[c])].h.correlation_id,
     sd |-> conns[c].sd]

\* the reply as the .then continuation stamps it
StampReply(c, k) ==
    [k |-> k, correlation_id |-> reqs[c][k].h.correlation_id,
     sd |-> conns[c].sd]

\* a continuation that puts its reply in front of the ones already queued
HResolveFront(c, k) ==
    /\ Running(c, k)
    /\ LET r == ReturnUnits([reqs EXCEPT ![c][k].units = 0], reqs[c][k].units)
       IN /\ memory' = r.mem
          /\ IF is_closed
             THEN /\ reqs' = [r.rq EXCEPT ![c][k] =
                                [@ EXCEPT !.pc = "done", !.res = "skipped"]]
                  /\ probe' = [probe EXCEPT !.requests_completed = @ + 1]
                  /\ gate_count' = gate_count - 1
                  /\ UNCHANGED out
             ELSE /\ reqs' = [r.rq EXCEPT ![c][k].pc = "write"]
                  /\ out' = [out EXCEPT ![c] = << StampReply(c, k) >> \o @]
                  /\ UNCHANGED << probe, gate_count >>
    /\ UNCHANGED << audit, services, as, gate_closed, stop_pc, lst, conns >>

\* a continuation that writes its reply without looking at the gate
HResolveAlwaysWrite(c, k) ==
    /\ Running(c, k)
    /\ LET r == ReturnUnits([reqs EXCEPT ![c][k].units = 0], reqs[c][k].units)
       IN /\ memory' = r.mem
          /\ reqs' = [r.rq EXCEPT ![c][k].pc = "write"]
          /\ out' = [out EXCEPT ![c] = Append(@, StampReply(c, k))]
          /\ UNCHANGED << probe, gate_count >>
    /\ UNCHANGED << audit, services, as, gate_closed, stop_pc, lst, conns >>

\* the handler's future resolves with a netbuf: the .then continuation of
\* dispatch_method_once writes the reply or skips the write
HResolve(c, k) ==
    /\ Running(c, k)
    /\ LET r == ReturnUnits([reqs EXCEPT ![c][k].units = 0], reqs[c][k].units)
       IN /\ memory' = r.mem
          /\ IF is_closed
             THEN /\ reqs' = [r.rq EXCEPT ![c][k] =
                                [@ EXCEPT !.pc = "done", !.res = "skipped"]]
                  /\ probe' = [probe EXCEPT !.requests_completed = @ + 1]
                  /\ gate_count' = gate_count - 1
                  /\ UNCHANGED out
             ELSE /\ reqs' = [r.rq EXCEPT ![c][k].pc = "write"]
                  /\ out' = [out EXCEPT ![c] = Append(@, StampReply(c, k))]
                  /\ UNCHANGED << probe, gate_count >>
    /\ UNCHANGED << audit, services, as, gate_closed, stop_pc, lst, conns >>

\* a handler whose failure path keeps the units it reserved
HThrowLeak(c, k) ==
    /\ Running(c, k)
    /\ reqs' = [reqs EXCEPT ![c][k] = [@ EXCEPT !.pc = "done", !.res = "threw"]]
    /\ probe' = [probe EXCEPT !.requests_completed = @ + 1]
    /\ gate_count' = gate_count - 1
    /\ UNCHANGED << audit, services, as, gate_closed, stop_pc, lst, conns, out, memory >>

\* the handler's future fails: .then is skipped, .finally runs
HThrow(c, k) ==
    /\ Running(c, k)
    /\ LET r == ReturnUnits([reqs EXCEPT ![c][k].units = 0], reqs[c][k].units)
       IN /\ memory' = r.mem
          /\ reqs' = [r.rq EXCEPT ![c][k] =
                        [@ EXCEPT !.pc = "done", !.res = "threw"]]
    /\ probe' = [probe EXCEPT !.requests_completed = @ + 1]
    /\ gate_count' = gate_count - 1
    /\ UNCHANGED << audit, services, as, gate_closed, stop_pc, lst, conns, out >>

\* a write whose completion is not counted
WriteDoneUncounted(c, k) ==
    /\ k \in DOMAIN reqs[c]
    /\ reqs[c][k].pc = "write"
    /\ \E r \in {"written", "write_failed"} :
          reqs' = [reqs EXCEPT ![c][k] = [@ EXCEPT !.pc = "done", !.res = r]]
    /\ gate_count' = gate_count - 1
    /\ UNCHANGED << audit, services, as, gate_closed, stop_pc, lst, conns, out,
                    memory, probe >>

\* conn->write resolves, with or without an error; .finally runs
WriteDone(c, k) ==
    /\ k \in DOMAIN reqs[c]
    /\ reqs[c][k].pc = "write"
    /\ \E r \in {"written", "write_failed"} :
          reqs' = [reqs EXCEPT ![c][k] = [@ EXCEPT !.pc = "done", !.res = r]]
    /\ probe' = [probe EXCEPT !.requests_completed = @ + 1]
    /\ gate_count' = gate_count - 1
    /\ UNCHANGED << audit, services, as, gate_closed, stop_pc, lst, conns, out, memory >>

\* ---- the specification

Reqs == 1..MaxReqs

Next ==
    \/ Start
    \/ AcceptReady
    \/ AcceptCont
    \/ Stop
    \/ StopDrained
    \/ \E c \in Conns : ParseRead(c)
    \/ \E c \in Conns : ParseCont(c)
    \/ \E c \in Conns : AwaitSignal(c)
    \/ \E c \in Conns : ShutdownDone(c)
    \/ \E c \in Conns, k \in Reqs, ask \in 1..MaxAsk : reserve_memory(c, k, ask)
    \/ \E c \in Conns, k \in Reqs : signal_body_parse(c, k)
    \/ \E c \in Conns, k \in Reqs : HResolve(c, k)
    \/ \E c \in Conns, k \in Reqs : HThrow(c, k)
    \/ \E c \in Conns, k \in Reqs : WriteDone(c, k)

Spec == Init /\ [][Next]_vars

\* ---- the same server over every registry: any number of services up to
\* MaxServices, each claiming any set of method ids (none, disjoint ones,
\* or ids an earlier service claims too)

Registries == UNION {[1..n -> SUBSET MethodIds] : n \in 0..MaxServices}

LookupInit ==
    /\ services \in Registries
    /\ InitServer

LookupSpec == LookupInit /\ [][Next]_vars

\* ---- handlers that obey the method contract: they reserve at most the
\* whole budget, in one shot, call signal_body_parse once the body is read
\* and then resolve with a reply

CReserve(c, k, ask) ==
    /\ Running(c, k)
    /\ ask <= max_service_memory_per_core
    /\ reqs[c][k].nres = 0
    /\ reserve_memory(c, k, ask)

CResolve(c, k) ==
    /\ Running(c, k)
    /\ reqs[c][k].sig
    /\ HResolve(c, k)

\* the write of a reply to a peer that keeps its end of the connection open
CWriteDone(c, k) ==
    /\ WriteDone(c, k)
    /\ reqs'[c][k].res = "written"

\* a read that shutdown_input() has unblocked
ReadEof(c) ==
    /\ conns[c].inshut
    /\ ParseRead(c)

ContractNext ==
    \/ Start
    \/ AcceptReady
    \/ AcceptCont
    \/ Stop
    \/ StopDrained
    \/ \E c \in Conns : ParseRead(c)
    \/ \E c \in Conns : ParseCont(c)
    \/ \E c \in Conns : AwaitSignal(c)
    \/ \E c \in Conns : ShutdownDone(c)
    \/ \E c \in Conns, k \in Reqs, ask \in 1..MaxAsk : CReserve(c, k, ask)
    \/ \E c \in Conns, k \in Reqs : signal_body_parse(c, k)
    \/ \E c \in Conns, k \in Reqs : CResolve(c, k)
    \/ \E c \in Conns, k \in Reqs : CWriteDone(c, k)

\* the reactor runs every ready continuation; a contract handler goes on
\* to signal and to resolve; the peer and the caller of stop() owe nothing
ContractFairness ==
    /\ WF_vars(AcceptCont)
    /\ WF_vars(StopDrained)
    /\ \A c \in Conns :
          /\ WF_vars(ReadEof(c))
          /\ WF_vars(ParseCont(c))
          /\ WF_vars(AwaitSignal(c))
          /\ WF_vars(ShutdownDone(c))
          /\ \A k \in Reqs :
                /\ WF_vars(signal_body_parse(c, k))
                /\ WF_vars(CResolve(c, k))
                /\ WF_vars(CWriteDone(c, k))

ContractSpec == Init /\ [][ContractNext]_vars /\ ContractFairness

\* ---- the audit queue of security/audit, driven as
\* tests/audit_log_test.cc drives it

\* a manager that takes an event whenever any of its buffer is left
enqueue_any_room(a, type, size) ==
    IF ~a.enabled \/ type \notin enabled_types
    THEN [ok |-> TRUE, a |-> a]
    ELSE IF a.avail > 0
    THEN [ok |-> TRUE,
          a |-> [a EXCEPT !.avail = IF @ >= size THEN @ - size ELSE 0,
                          !.queue = Append(@, IF a.avail >= size THEN size
                                              ELSE a.avail)]]
    ELSE [ok |-> FALSE, a |-> a]

\* audit_log_manager::enqueue_audit_event(type, event) for an event of the
\* given size: the value it returns and the manager afterwards.  Auditing
\* switched off, or a type that is not enabled, passes through as true
enqueue_audit_event(a, type, size) ==
    IF ~a.enabled \/ type \notin enabled_types
    THEN [ok |-> TRUE, a |-> a]
    ELSE IF a.avail >= size
    THEN [ok |-> TRUE,
          a |-> [a EXCEPT !.avail = @ - size, !.queue = Append(@, size)]]
    ELSE [ok |-> FALSE, a |-> a]

\* audit_log_manager::avaiable_reservation()
avaiable_reservation(a) == a.avail

\* config audit_enabled is set to val
SetAuditEnabled(val) ==
    /\ audit.enabled # val
    /\ audit' = [audit EXCEPT !.enabled = val]
    /\ UNCHANGED server_vars

\* one round of the loop of enqueue_some
EnqueueSome ==
    /\ audit.enabled
    /\ audit.attempts < MaxAttempts
    /\ LET can_enqueue == avaiable_reservation(audit) >= event_size
           r == enqueue_audit_event(audit, "management", event_size)
       IN audit' = [r.a EXCEPT !.attempts = @ + 1,
                               !.can_enqueue = can_enqueue,
                               !.ok = r.ok,
                               !.success = IF r.ok THEN @ /\ can_enqueue
                                           ELSE @ /\ ~can_enqueue]
    /\ UNCHANGED server_vars

\* the application enqueues an event of its own between two rounds
AppEnqueue(type, size) ==
    /\ audit.enabled
    /\ audit' = enqueue_audit_event(audit, type, size).a
    /\ UNCHANGED server_vars

\* the drain fiber sends the oldest pending event and returns its units
AuditDrain ==
    /\ audit.queue # << >>
    /\ audit' = [audit EXCEPT !.avail = @ + Head(audit.queue),
                              !.queue = Tail(@)]
    /\ UNCHANGED server_vars

AuditNext ==
    \/ \E val \in BOOLEAN : SetAuditEnabled(val)
    \/ EnqueueSome
    \/ \E type \in EventTypes, size \in EventSizes : AppEnqueue(type, size)
    \/ AuditDrain

AuditSpec == Init /\ [][AuditNext]_vars

TypeOK ==
    /\ as \in BOOLEAN
    /\ gate_closed \in BOOLEAN
    /\ gate_count \in 0..(1 + MaxConns + MaxConns * MaxReqs)
    /\ stop_pc \in {"idle", "closing", "done"}
    /\ memory.avail \in 0..max_service_memory_per_core

\* ---- properties

Handlers == {ck \in Conns \X Reqs : ck[2] \in DOMAIN reqs[ck[1]]}

\* units held by the handlers in flight
RECURSIVE SumUnits(_)
SumUnits(S) ==
    IF S = {} THEN 0
    ELSE LET ck == CHOOSE x \in S : TRUE
         IN reqs[ck[1]][ck[2]].units + SumUnits(S \ {ck})

HeldUnits == SumUnits(Handlers)

\* the gauge rpc_consumed_mem of setup_metrics
consumed_mem == max_service_memory_per_core - memory.avail

C2_MemoryBounded ==
    /\ memory.avail >= 0
    /\ HeldUnits <= max_service_memory_per_core
    /\ HeldUnits + memory.avail = max_service_memory_per_core

\* the whole budget is held and another reservation is waiting for it
C2_Witness ==
    /\ HeldUnits = max_service_memory_per_core
    /\ memory.avail = 0
    /\ memory.waitq # << >>

\* C3: once stop() has raised the abort source and closed the gate, no
\* step starts a handler, also for a header parsed before stop() ran
C3_NoHandlerAfterStop ==
    [][(stop_pc # "idle" \/ gate_closed) =>
         /\ as /\ gate_closed
         /\ \A c \in Conns : Len(reqs'[c]) = Len(reqs[c])]_vars

\* a header that was read before stop() and dispatched after it
C3_Witness ==
    \E c \in Conns :
        /\ conns[c].err = "gate_closed"
        /\ stop_pc # "idle"

\* C4: when stop() has resolved no handler is executing or writing, the
\* accept loop and every dispatch loop have returned, and every connection
\* that was constructed has had shutdown() called and awaited
C4_StopQuiescent ==
    stop_pc = "done" =>
        /\ gate_count = 0
        /\ lst.pc \in {"init", "stopped"}
        /\ \A c \in Conns :
              /\ conns[c].pc \in {"none", "done"}
              /\ conns[c].pc = "done" => conns[c].sd = "done"
              /\ \A k \in DOMAIN reqs[c] :
                    /\ reqs[c][k].pc = "done"
                    /\ reqs[c][k].res \in
                          {"written", "write_failed", "skipped", "threw"}

\* stop() resolved after handlers were in flight when it was called
C4_Witness ==
    /\ stop_pc = "done"
    /\ \E c \in Conns : \E k \in DOMAIN reqs[c] : reqs[c][k].res = "skipped"

\* C5: with handlers that obey the contract, a stop() that has closed the
\* gate eventually resolves; stop() itself touches no handler, and when it
\* has resolved every handler has finished with its reply written or its
\* write skipped
C5_GracefulStop ==
    /\ (stop_pc = "closing") ~> (stop_pc = "done")
    /\ [][(stop_pc = "idle" /\ stop_pc' # "idle") => reqs' = reqs]_vars
    /\ [](stop_pc = "done" =>
            \A c \in Conns : \A k \in Reqs :
                k \in DOMAIN reqs[c] =>
                    /\ reqs[c][k].pc = "done"
                    /\ reqs[c][k].res \in {"written", "skipped"})

\* stop() resolved although two handlers of one connection were still
\* running when it closed the gate
C5_Witness ==
    /\ stop_pc = "done"
    /\ \E c \in Conns :
          /\ Len(reqs[c]) >= 2
          /\ \A k \in DOMAIN reqs[c] : reqs[c][k].res = "skipped"

\* C6: after a handler of a connection has failed, the connection is
\* closed: its dispatch loop is never left waiting for the peer's next
\* header with the input open and shutdown() not invoked
C6_HandlerFailureClosesConnection ==
    \A c \in Conns :
        (\E k \in DOMAIN reqs[c] : reqs[c][k].res = "threw") =>
            ~(conns[c].pc = "read" /\ ~conns[c].inshut /\ conns[c].sd = "no")

\* no registered service claims the method id
Unclaimed(id) == \A i \in DOMAIN services : id \notin services[i]

\* C7: a header whose method id no service claims increments
\* method_not_found once, starts no handler and ends the dispatch loop with
\* an error and shutdown() invoked; afterwards that connection parses and
\* dispatches nothing more, and the counter moves for no other reason
C7_MethodNotFound ==
    [][/\ \A c \in Conns :
            /\ (/\ conns[c].pc = "parsed"
                /\ conns[c].res = "header"
                /\ Unclaimed(conns[c].h.meta)
                /\ conns'[c].pc # "parsed") =>
                    /\ probe'.method_not_found = probe.method_not_found + 1
                    /\ reqs' = reqs
                    /\ gate_count' = gate_count
                    /\ conns'[c].pc = "shutdown"
                    /\ conns'[c].sd = "called"
                    /\ conns'[c].err = "not_found"
            /\ conns[c].err = "not_found" =>
                    /\ conns'[c].err = "not_found"
                    /\ conns'[c].pc \in {"shutdown", "done"}
                    /\ conns'[c].nparsed = conns[c].nparsed
                    /\ Len(reqs'[c]) = Len(reqs[c])
       /\ probe'.method_not_found # probe.method_not_found =>
            \E c \in Conns :
                /\ conns[c].pc = "parsed"
                /\ conns[c].res = "header"
                /\ Unclaimed(conns[c].h.meta)
                /\ conns'[c].err = "not_found"]_vars

\* a connection closed by an unknown method after an earlier request of it
\* had been dispatched
C7_Witness ==
    \E c \in Conns :
        /\ conns[c].err = "not_found"
        /\ conns[c].pc = "done"
        /\ conns[c].sd = "done"
        /\ probe.method_not_found = 1
        /\ Len(reqs[c]) >= 1

\* C8: an absent result of parse_header increments header_corrupted once,
\* starts no handler and does not fail the loop: with the input not at EOF
\* and no abort requested the connection stays open and the loop reads the
\* next header; a later well-formed header of a registered method is
\* dispatched, and its handler (obeying the contract) gets to the point
\* where its reply is written, or skipped because stop() closed the gate
C8_CorruptHeaderTolerated ==
    /\ [][\A c \in Conns :
            /\ (/\ conns[c].pc = "parsed"
                /\ conns[c].res = "absent"
                /\ conns'[c].pc # "parsed") =>
                    /\ probe'.header_corrupted = probe.header_corrupted + 1
                    /\ reqs' = reqs
                    /\ gate_count' = gate_count
                    /\ conns'[c].err = "none"
                    /\ (~conns[c].eof /\ ~as) =>
                          /\ conns'[c].pc = "read"
                          /\ conns'[c].sd = "no"
            /\ (/\ conns[c].pc = "parsed"
                /\ conns[c].res = "header"
                /\ ~Unclaimed(conns[c].h.meta)
                /\ ~gate_closed
                /\ conns'[c].pc # "parsed") =>
                    /\ Len(reqs'[c]) = Len(reqs[c]) + 1
                    /\ reqs'[c][Len(reqs'[c])].h = conns[c].h
                    /\ reqs'[c][Len(reqs'[c])].pc = "run"]_vars
    /\ <>[](\A c \in Conns : \A k \in DOMAIN reqs[c] :
                reqs[c][k].res \in {"written", "skipped"})

\* a corrupt header was counted, the connection stayed open and the
\* request behind it on the same connection has just been dispatched
C8_Witness ==
    \E c \in Conns :
        /\ probe.header_corrupted = 1
        /\ conns[c].nparsed = 2
        /\ ~conns[c].eof
        /\ Len(reqs[c]) = 1
        /\ ~reqs[c][1].sig
        /\ conns[c].pc = "await"

\* C9: every reply handed to conn->write carries the correlation_id of the
\* header of the request whose handler produced it
C9_ReplyCorrelation ==
    \A c \in Conns : \A i \in DOMAIN out[c] :
        /\ out[c][i].k \in DOMAIN reqs[c]
        /\ out[c][i].correlation_id = reqs[c][out[c][i].k].h.correlation_id

\* two requests with different correlation ids in flight together on one
\* connection, the later one answered first
C9_Witness ==
    \E c \in Conns :
        /\ Len(reqs[c]) >= 2
        /\ reqs[c][1].h.correlation_id # reqs[c][2].h.correlation_id
        /\ Len(out[c]) >= 2
        /\ out[c][1].k = 2
        /\ out[c][2].k = 1

C11_SemaphoreBalanced ==
    (\A c \in Conns : \A k \in DOMAIN reqs[c] : reqs[c][k].pc = "done") =>
        /\ memory.avail = max_service_memory_per_core
        /\ memory.waitq = << >>
        /\ consumed_mem = 0

\* two handlers that both reserved memory have finished, one by an
\* exception and one after handing its reply to the connection
C11_Witness ==
    /\ consumed_mem = 0
    /\ \E c \in Conns :
          /\ \A k \in DOMAIN reqs[c] : reqs[c][k].pc = "done" /\ reqs[c][k].nres > 0
          /\ \E k \in DOMAIN reqs[c] : reqs[c][k].res = "threw"
          /\ \E k \in DOMAIN reqs[c] : reqs[c][k].res \in {"written", "skipped"}

\* the services that answer method_from_id(id) with a method
Claimers(id) == {i \in DOMAIN services : id \in services[i]}

\* C12: for every registry and every method id, the step that dispatches
\* a parsed header treats it as method-not-found exactly when no service
\* claims the id, and otherwise the handler it starts is the method of the
\* earliest-registered service that claims the id
C12_EarliestServiceWins ==
    [][\A c \in Conns :
        (/\ conns[c].pc = "parsed"
         /\ conns[c].res = "header"
         /\ conns'[c].pc # "parsed") =>
            LET id == conns[c].h.meta
                notfound == /\ probe'.method_not_found = probe.method_not_found + 1
                            /\ conns'[c].err = "not_found"
            IN /\ (Claimers(id) = {}) <=> notfound
               /\ (Claimers(id) = {}) => reqs' = reqs
               /\ (Claimers(id) # {}) =>
                     /\ probe'.method_not_found = probe.method_not_found
                     /\ probe'.bytes_received # probe.bytes_received
                     /\ ~gate_closed =>
                           /\ Len(reqs'[c]) = Len(reqs[c]) + 1
                           /\ LET r == reqs'[c][Len(reqs'[c])]
                              IN /\ r.h = conns[c].h
                                 /\ r.m \in Claimers(id)
                                 /\ \A j \in Claimers(id) : r.m <= j]_vars

\* under one registry a request whose id two services claim went to the
\* first of them, and a request whose id only the second claims went to
\* the second
C12_Witness ==
    /\ Len(services) = 2
    /\ \E c \in Conns :
          /\ Len(reqs[c]) = 2
          /\ reqs[c][1].m = 1
          /\ Claimers(reqs[c][1].h.meta) = {1, 2}
          /\ reqs[c][2].m = 2
          /\ Claimers(reqs[c][2].h.meta) = {2}

\* C13: with auditing on, every attempt of the enqueue loop to enqueue an
\* event of an enabled type returns true if and only if the available
\* reservation at that instant is at least the event size; a true attempt
\* takes exactly that reservation, a false one leaves the queue alone, and
\* observed and predicted outcome agree on every attempt
C13_EnqueueIffReservation ==
    [][audit'.attempts = audit.attempts + 1 =>
         /\ audit'.ok <=> (audit.avail >= event_size)
         /\ audit'.ok <=> audit'.can_enqueue
         /\ audit'.ok =>
               /\ audit'.avail = audit.avail - event_size
               /\ audit'.queue = Append(audit.queue, event_size)
         /\ ~audit'.ok =>
               /\ audit'.avail = audit.avail
               /\ audit'.queue = audit.queue
         /\ audit'.success]_vars

\* the last attempt was refused with part of the buffer still free, less
\* than one event, after an earlier attempt had been accepted
C13_Witness ==
    /\ audit.enabled
    /\ audit.attempts >= 2
    /\ ~audit.ok
    /\ audit.avail > 0
    /\ \E i \in DOMAIN audit.queue : audit.queue[i] = event_size
    /\ audit.success

\* the handlers of a connection that have not called signal_body_parse
Unsignalled(c) == {k \in DOMAIN reqs[c] : ~reqs[c][k].sig}

\* C14: the loop of a connection is reading or holding the next header
\* only when every handler started on the connection has called
\* signal_body_parse; a loop that awaits a signalled handler goes on to the
\* next header whatever the state of that handler's reply; handlers are
\* started one per parsed header, at the tail, in the order the headers were
\* read; and at most one handler per connection, the one started last, has
\* not signalled yet
C14_LoopAwaitsOnlySignal ==
    [][\A c \in Conns :
        /\ conns'[c].pc \in {"read", "parsed"} => Unsignalled(c)' = {}
        /\ Unsignalled(c)' \subseteq {Len(reqs'[c])}
        /\ (/\ conns[c].pc = "await"
            /\ conns'[c].pc # "await"
            /\ reqs[c][Len(reqs[c])].sig
            /\ ~conns[c].eof /\ ~as) => conns'[c].pc = "read"
        /\ (conns[c].pc = "await" /\ conns'[c].pc = "read") =>
              reqs[c][Len(reqs[c])].sig
        /\ Len(reqs'[c]) # Len(reqs[c]) =>
              /\ conns[c].pc = "parsed"
              /\ reqs'[c] = Append(reqs[c], reqs'[c][Len(reqs'[c])])
              /\ reqs'[c][Len(reqs'[c])].h = conns[c].h
              /\ conns'[c].pc = "await"]_vars

\* the header of the second request has been read while the handler of
\* the first, which has signalled, is still running with no reply written
C14_Witness ==
    \E c \in Conns :
        /\ conns[c].pc = "parsed"
        /\ conns[c].res = "header"
        /\ Len(reqs[c]) = 1
        /\ reqs[c][1].sig
        /\ reqs[c][1].pc = "run"
        /\ out[c] = << >>

\* C15 (as claimed): while the handler a loop awaits has not called
\* signal_body_parse the loop stays where it is, whatever the handler does
C15_StalledForever ==
    [][\A c \in Conns :
        (/\ conns[c].pc = "await"
         /\ ~reqs[c][Len(reqs[c])].sig
         /\ ~reqs'[c][Len(reqs[c])].sig) => conns'[c].pc = "await"]_vars

\* C15 (amended): a loop that awaits an unsignalled handler stays blocked,
\* parsing nothing, as long as that handler has neither failed nor finished
\* with its reply (written or skipped); once the handler has finished
\* without the signal, the only step the loop takes is to end with a broken
\* promise and call shutdown(), and it never parses another header
C15_StalledWhileHandlerLives ==
    [][\A c \in Conns :
        /\ (/\ conns[c].pc = "await"
            /\ ~reqs[c][Len(reqs[c])].sig
            /\ ~reqs'[c][Len(reqs[c])].sig) =>
              /\ conns'[c].nparsed = conns[c].nparsed
              /\ reqs[c][Len(reqs[c])].pc # "done" => conns'[c].pc = "await"
              /\ conns'[c].pc # "await" =>
                    /\ conns'[c].pc = "shutdown"
                    /\ conns'[c].sd = "called"
                    /\ conns'[c].err = "broken_promise"
        /\ conns[c].err = "broken_promise" =>
              /\ conns'[c].err = "broken_promise"
              /\ conns'[c].pc \in {"shutdown", "done"}
              /\ conns'[c].nparsed = conns[c].nparsed
              /\ Len(reqs'[c]) = Len(reqs[c])]_vars

\* a handler resolved with a reply that was written, never having called
\* signal_body_parse, and the loop of its connection, whose input is still
\* open, has terminated with a broken promise
C15_Witness ==
    \E c \in Conns :
        /\ conns[c].err = "broken_promise"
        /\ conns[c].pc = "done"
        /\ ~conns[c].eof /\ ~conns[c].inshut
        /\ ~as
        /\ ~reqs[c][Len(reqs[c])].sig
        /\ reqs[c][Len(reqs[c])].res = "written"

\* C16: the step in which a handler resolves with a reply hands the reply
\* to conn->write if and only if _conn_gate is not closed at that moment,
\* and otherwise skips the write and finishes; and once stop() has begun
\* no step starts a reply write
C16_WriteIffGateOpen ==
    [][/\ \A c \in Conns : \A k \in DOMAIN reqs[c] :
            (/\ reqs[c][k].pc = "run"
             /\ reqs'[c][k].pc \in {"write", "done"}
             /\ reqs'[c][k].res # "threw") =>
                /\ (~gate_closed) <=>
                      /\ reqs'[c][k].pc = "write"
                      /\ Len(out'[c]) = Len(out[c]) + 1
                      /\ out'[c][Len(out'[c])].k = k
                /\ gate_closed =>
                      /\ reqs'[c][k].pc = "done"
                      /\ reqs'[c][k].res = "skipped"
                      /\ out' = out
       /\ (stop_pc # "idle" \/ gate_closed) => out' = out
       /\ \A c \in Conns : Len(out'[c]) > Len(out[c]) =>
            \E k \in DOMAIN reqs[c] :
                reqs[c][k].pc = "run" /\ reqs'[c][k].pc = "write"]_vars

\* of two handlers of one connection, the one that resolved before stop()
\* had its reply written and the one that resolved after it was skipped
C16_Witness ==
    /\ stop_pc # "idle"
    /\ \E c \in Conns :
          /\ Len(out[c]) = 1
          /\ \E k \in DOMAIN reqs[c] : reqs[c][k].res = "written"
          /\ \E k \in DOMAIN reqs[c] : reqs[c][k].res = "skipped"

\* the handlers that have finished
Finished == {ck \in Handlers : reqs[ck[1]][ck[2]].pc = "done"}

\* C17: requests_completed counts every started handler exactly once, when
\* it finishes, whatever its outcome (reply written, write failed, write
\* skipped, exception), and counts nothing else: it always equals the number
\* of finished handlers, each of which has one of those outcomes, while
\* corrupt headers, unknown methods and dispatches refused by the closed
\* gate start no handler and leave it alone
C17_CompletedOncePerHandler ==
    /\ probe.requests_completed = Cardinality(Finished)
    /\ \A ck \in Handlers :
          (ck \in Finished) <=>
              reqs[ck[1]][ck[2]].res \in
                  {"written", "write_failed", "skipped", "threw"}

\* two handlers finished, one by a failed write and one by an exception,
\* on a connection whose loop then ended on an unparsable header, and the
\* counter reads two
C17_Witness ==
    /\ probe.requests_completed = 2
    /\ probe.header_corrupted + probe.method_not_found >= 1
    /\ \E c \in Conns :
          /\ \E k \in DOMAIN reqs[c] : reqs[c][k].res = "write_failed"
          /\ \E k \in DOMAIN reqs[c] : reqs[c][k].res = "threw"

\* tasks inside _conn_gate: the accept loop, the dispatch task of every
\* connection up to the end of its shutdown(), the handler tasks
GateHolders ==
    (IF lst.pc \in {"accepting", "ready"} THEN 1 ELSE 0)
    + Cardinality({c \in Conns :
                     conns[c].pc \in {"read", "parsed", "await", "shutdown"}})
    + Cardinality(Handlers \ Finished)

\* C18: once abort has been requested, the continuation of a resolved
\* accept, whether it resolved with a connection or with an error, stops
\* the accept loop: it constructs no connection, starts no dispatch loop,
\* and leaves the gate, which only running tasks hold; and no connection
\* comes into being while abort is requested
C18_AcceptIgnoredAfterAbort ==
    [][/\ (lst.pc = "ready" /\ as /\ lst' # lst) =>
            /\ lst'.pc = "stopped"
            /\ conns' = conns
            /\ reqs' = reqs
            /\ gate_count' = gate_count - 1
       /\ as => \A c \in Conns : conns[c].pc = "none" => conns'[c].pc = "none"
       /\ gate_count' = GateHolders']_vars

\* an accept that had resolved with a connection when stop() raised abort
\* was ignored: the loop has stopped, no connection exists, and stop() has
\* resolved
C18_Witness ==
    /\ as
    /\ lst.pc = "stopped"
    /\ lst.res = "conn"
    /\ \A c \in Conns : conns[c].pc = "none"
    /\ stop_pc = "done"

\* a connection made by the branch of accept that finds the gate closed:
\* shutdown() was called on it and no dispatch task was started for it
AcceptedOnClosedGate(c) == conns[c].pc = "done" /\ conns[c].sd = "called"

\* C19: whenever _conn_gate is closed the abort source has been raised, as
\* stop() does both in one step; so the branch of accept that finds the
\* gate closed, which lies behind the test of the abort source, is never
\* taken
C19_GateClosedImpliesAbort ==
    /\ gate_closed => as
    /\ gate_closed <=> (stop_pc # "idle")
    /\ \A c \in Conns : ~AcceptedOnClosedGate(c)

\* stop() is waiting for the gate, and the accept that had resolved with
\* a connection has been dealt with: by the abort test, not by the gate
C19_Witness ==
    /\ gate_closed
    /\ stop_pc = "closing"
    /\ lst.pc = "stopped"
    /\ lst.res = "conn"
    /\ \A c \in Conns : conns[c].pc = "none"

\* C20: shutdown() is called on a connection only when every handler
\* started on it has made its write-or-skip decision, and no reply is handed
\* to conn->write on a connection whose shutdown() has already been called
C20_NoWriteAfterShutdown ==
    \A c \in Conns :
        /\ \A i \in DOMAIN out[c] : out[c][i].sd = "no"
        /\ conns[c].pc = "shutdown" =>
              \A k \in DOMAIN reqs[c] : reqs[c][k].pc \in {"write", "done"}

====
